---- MODULE Spec2Model ----
(***************************************************************************)
(* Model of the route modules of web-app-fundamentals:                     *)
(*   - settings+/profile.tsx  (loader, action, usePreviousValue,           *)
(*     EditUserProfile) of exercise 06.form-validation/03;                 *)
(*   - users_+/$username.tsx  (loader, ErrorBoundary) of exercise          *)
(*     05.error-handling/03, and the earlier stage of the same route kept  *)
(*     in src/unnamed/part_000.                                            *)
(* Form values are modelled with their JavaScript type (typeof) and text,  *)
(* the database by the single User aggregate of the caller plus one other  *)
(* user whose username is taken.                                           *)
(***************************************************************************)
EXTENDS Integers, Sequences, FiniteSets, TLC

VARIABLES
    user,       \* the stored User aggregate of the caller (id "u1")
    last,       \* the last request handled by profile.tsx and its response
    page,       \* the mounted EditUserProfile component (refs, effect deps, loader data)
    route       \* the last request handled by the users/$username route

vars == <<user, last, page, route>>

-----------------------------------------------------------------------------
(* Form values: Object.fromEntries(formData) gives a string, a File         *)
(* (typeof "object") or undefined when the field was not submitted.         *)

Text(s) == [t |-> "string", v |-> s]
Undef == [t |-> "undefined", v |-> ""]
FileV == [t |-> "object", v |-> ""]

IsString(x) == x.t = "string"

\* JavaScript truthiness of a form value: a non-empty string or a File.
Truthy(x) == \/ x.t = "object"
             \/ x.t = "string" /\ x.v # ""

-----------------------------------------------------------------------------
(* Stored data.                                                             *)

NoContact == [present |-> FALSE, phone |-> "", address |-> "", city |-> "",
              state |-> "", zip |-> "", country |-> ""]
NoCap == [present |-> FALSE, bio |-> ""]
Cap(b) == [present |-> TRUE, bio |-> b]

\* hash of a plaintext password (a one-way digest, not the plaintext)
getPasswordHash(pw) == "hash(" \o pw \o ")"

\* the Credential Verifier: does the plaintext match the stored hash
verifyPassword(hash, pw) == hash = getPasswordHash(pw)

\* usernames of the other stored users (username is unique in the schema)
OtherUsernames == {"kody"}

InitialUsers ==
    {[name |-> "Al", username |-> "alice", email |-> "al@example.com",
      contactInfo |-> NoContact, hash |-> getPasswordHash("oldpass"),
      host |-> h, renter |-> r] : h \in {NoCap, Cap("")}, r \in {NoCap, Cap("")}}

\* session user ids: no session, the caller's id, an id whose User was deleted
Sessions == {"none", "u1", "gone"}

\* prisma.user.findUnique({ where: { id } })
FindUserById(id) == IF id = "u1" THEN [found |-> TRUE, user |-> user]
                    ELSE [found |-> FALSE, user |-> user]

-----------------------------------------------------------------------------
(* The profile-update action (profile.tsx, action).                         *)

MinNameLen == 1
MinUsernameLen == 3

\* a variant that forgets the last assert
RequiredFields_NoCountry == <<"name", "username", "phone", "address", "city",
                              "state", "zip">>

\* the fields the action asserts to be strings, in the order of the asserts
RequiredFields == <<"name", "username", "phone", "address", "city", "state",
                    "zip", "country">>

\* invariant(typeof f === 'string', ...) for each required field: the index
\* of the first field that fails, 0 when every one is a string
FirstBadField(req) ==
    LET bad == {i \in 1..Len(RequiredFields) : ~IsString(req[RequiredFields[i]])}
    IN  IF bad = {} THEN 0 ELSE CHOOSE i \in bad : \A j \in bad : i <= j

InvariantMessage(f) == f \o " must be a string"

NoErrors == [formErrors |-> <<>>, fieldErrors |-> [f \in {} |-> <<>>]]

\* the field checks of the action; the fieldErrors object has a key only
\* for a field that failed
NameErrors(req) ==
    IF Len(req.name.v) < MinNameLen THEN <<"Must be at least 1 character">> ELSE <<>>

\* a variant with the bound off by one
UsernameErrors_OffByOne(req) ==
    IF Len(req.username.v) < MinUsernameLen - 1
    THEN <<"Must be at least 3 characters">> ELSE <<>>

UsernameErrors(req) ==
    IF Len(req.username.v) < MinUsernameLen
    THEN <<"Must be at least 3 characters">> ELSE <<>>

Validate(req) ==
    LET keys == {f \in {"name"} : NameErrors(req) # <<>>}
                \cup {f \in {"username"} : UsernameErrors(req) # <<>>}
    IN  [formErrors |-> <<>>,
         fieldErrors |-> [f \in keys |-> IF f = "name" THEN NameErrors(req)
                                         ELSE UsernameErrors(req)]]

\* a variant that looks at the form-level errors only
HasErrors_FormOnly(errors) == Len(errors.formErrors) > 0

\* errors.formErrors.length || Object.values(fieldErrors).some(e => e?.length)
HasErrors(errors) ==
    \/ Len(errors.formErrors) > 0
    \/ \E f \in DOMAIN errors.fieldErrors : Len(errors.fieldErrors[f]) > 0

\* a variant without the truthiness test
PasswordData_AnyString(req) ==
    IF IsString(req.newPassword)
    THEN [set |-> TRUE, hash |-> getPasswordHash(req.newPassword.v)]
    ELSE [set |-> FALSE, hash |-> ""]

\* password: typeof newPassword === 'string' && newPassword ? {update} : undefined
PasswordData(req) ==
    IF IsString(req.newPassword) /\ Truthy(req.newPassword)
    THEN [set |-> TRUE, hash |-> getPasswordHash(req.newPassword.v)]
    ELSE [set |-> FALSE, hash |-> ""]

\* a variant that tests for presence instead of the type
HostData_AnyValue(req) ==
    IF req.hostBio.t # "undefined" THEN [set |-> TRUE, bio |-> req.hostBio.v]
    ELSE [set |-> FALSE, bio |-> ""]

\* host: typeof hostBio === 'string' ? { update: { bio: hostBio } } : undefined
HostData(req) ==
    IF IsString(req.hostBio) THEN [set |-> TRUE, bio |-> req.hostBio.v]
    ELSE [set |-> FALSE, bio |-> ""]

RenterData(req) ==
    IF IsString(req.renterBio) THEN [set |-> TRUE, bio |-> req.renterBio.v]
    ELSE [set |-> FALSE, bio |-> ""]

NoData == [called |-> FALSE, name |-> "", username |-> "",
           contactInfo |-> NoContact,
           password |-> [set |-> FALSE, hash |-> ""],
           host |-> [set |-> FALSE, bio |-> ""],
           renter |-> [set |-> FALSE, bio |-> ""]]

\* the data argument of prisma.user.update
UpdateData(req) ==
    [called |-> TRUE, name |-> req.name.v, username |-> req.username.v,
     contactInfo |-> [present |-> TRUE, phone |-> req.phone.v,
                      address |-> req.address.v, city |-> req.city.v,
                      state |-> req.state.v, zip |-> req.zip.v,
                      country |-> req.country.v],
     password |-> PasswordData(req),
     host |-> HostData(req),
     renter |-> RenterData(req)]

\* prisma.user.update({ where: { id }, data }): one statement, applied whole
\* or not at all.  It throws when no User has the id, when the username is
\* taken by another User, and when a nested update names a relation the
\* User does not have.
UpdateFails(u, found, data) ==
    \/ ~found
    \/ data.username \in OtherUsernames
    \/ data.host.set /\ ~u.host.present
    \/ data.renter.set /\ ~u.renter.present

UpdatedUser(u, data) ==
    [u EXCEPT !.name = data.name,
              !.username = data.username,
              !.contactInfo = data.contactInfo,
              !.hash = IF data.password.set THEN data.password.hash ELSE @,
              !.host = IF data.host.set THEN Cap(data.host.bio) ELSE @,
              !.renter = IF data.renter.set THEN Cap(data.renter.bio) ELSE @]

\* a variant that redirects to the username read before the update
RedirectTarget_Stale(updated) == "/users/" \o user.username

\* redirect(`/users/${updatedUser.username}`)
RedirectTarget(updated) == "/users/" \o updated.username

Response(outcome, status, errors, target, message) ==
    [outcome |-> outcome, status |-> status, errors |-> errors,
     target |-> target, message |-> message]

\* a variant of the handler that also stores a submitted email
ActionRun_WritesEmail(u, session, req) ==
    IF session = "none"
    THEN [resp |-> Response("unauthenticated", 302, NoErrors, "/login", ""),
          data |-> NoData, user |-> u, loggedOut |-> FALSE, verifierCalls |-> 0]
    ELSE IF FirstBadField(req) # 0
    THEN [resp |-> Response("thrown", 500, NoErrors, "",
                            InvariantMessage(RequiredFields[FirstBadField(req)])),
          data |-> NoData, user |-> u, loggedOut |-> FALSE, verifierCalls |-> 0]
    ELSE IF HasErrors(Validate(req))
    THEN [resp |-> Response("error", 400, Validate(req), "", ""),
          data |-> NoData, user |-> u, loggedOut |-> FALSE, verifierCalls |-> 0]
    ELSE IF UpdateFails(u, FindUserById(session).found, UpdateData(req))
    THEN [resp |-> Response("fault", 500, NoErrors, "", ""),
          data |-> UpdateData(req), user |-> u, loggedOut |-> FALSE, verifierCalls |-> 0]
    ELSE [resp |-> Response("redirect", 302, NoErrors,
                            RedirectTarget(UpdatedUser(u, UpdateData(req))), ""),
          data |-> UpdateData(req),
          user |-> [UpdatedUser(u, UpdateData(req)) EXCEPT
                        !.email = IF IsString(req.email) THEN req.email.v ELSE @],
          loggedOut |-> FALSE, verifierCalls |-> 0]

\* the whole handler: the response, the data handed to prisma (called =
\* FALSE when the update is never reached), the stored User afterwards,
\* whether the session was ended and how often verifyPassword was called
ActionRun(u, session, req) ==
    IF session = "none"
    THEN [resp |-> Response("unauthenticated", 302, NoErrors, "/login", ""),
          data |-> NoData, user |-> u, loggedOut |-> FALSE, verifierCalls |-> 0]
    ELSE IF FirstBadField(req) # 0
    THEN [resp |-> Response("thrown", 500, NoErrors, "",
                            InvariantMessage(RequiredFields[FirstBadField(req)])),
          data |-> NoData, user |-> u, loggedOut |-> FALSE, verifierCalls |-> 0]
    ELSE IF HasErrors(Validate(req))
    THEN [resp |-> Response("error", 400, Validate(req), "", ""),
          data |-> NoData, user |-> u, loggedOut |-> FALSE, verifierCalls |-> 0]
    ELSE IF UpdateFails(u, FindUserById(session).found, UpdateData(req))
    THEN [resp |-> Response("fault", 500, NoErrors, "", ""),
          data |-> UpdateData(req), user |-> u, loggedOut |-> FALSE, verifierCalls |-> 0]
    ELSE [resp |-> Response("redirect", 302, NoErrors,
                            RedirectTarget(UpdatedUser(u, UpdateData(req))), ""),
          data |-> UpdateData(req), user |-> UpdatedUser(u, UpdateData(req)),
          loggedOut |-> FALSE, verifierCalls |-> 0]

\* the loader of the same route: the stored User, or a forced logout
LoaderRun(u, session) ==
    IF session = "none"
    THEN [resp |-> Response("unauthenticated", 302, NoErrors, "/login", ""),
          loggedOut |-> FALSE, verifierCalls |-> 0]
    ELSE IF ~FindUserById(session).found
    THEN [resp |-> Response("redirect", 302, NoErrors, "/", ""),
          loggedOut |-> TRUE, verifierCalls |-> 0]
    ELSE [resp |-> Response("json", 200, NoErrors, "", ""), loggedOut |-> FALSE, verifierCalls |-> 0]

\* the Role Provisioner (create-host / create-renter): attach the capability
\* with an empty bio unless it exists already
Provision(cap) == IF cap.present THEN cap ELSE Cap("")

-----------------------------------------------------------------------------
(* The submissions explored.                                                *)

ContactA == [phone |-> Text("555"), address |-> Text("1 Main"), city |-> Text("SLC"),
             state |-> Text("UT"), zip |-> Text("84000"), country |-> Text("US")]
ContactB == [phone |-> Text(""), address |-> Text(""), city |-> Text(""),
             state |-> Text(""), zip |-> Text(""), country |-> Text("")]

Submission(name, username, c, newPassword, currentPassword, hostBio, renterBio, email) ==
    [name |-> name, username |-> username, email |-> email,
     newPassword |-> newPassword, currentPassword |-> currentPassword,
     renterBio |-> renterBio, hostBio |-> hostBio,
     phone |-> c.phone, address |-> c.address, city |-> c.city,
     state |-> c.state, zip |-> c.zip, country |-> c.country]

\* every required field is text; the optional ones are text or not submitted
CoreSubmissions ==
    {Submission(Text(n), Text(un), ContactA, np, cp, hb, Undef, Undef) :
        n \in {"", "A"}, un \in {"al", "alice2", "kody"},
        np \in {Undef, Text(""), Text("newpass12")},
        cp \in {Undef, Text("oldpass"), Text("wrong")},
        hb \in {Undef, Text("hb")}}

BaseSubmissions ==
    {Submission(Text("A"), Text(un), ContactA, np, Undef, Undef, Undef, Undef) :
        un \in {"al", "alice2"}, np \in {Undef, Text("newpass12")}}

\* a base submission with the renter bio, an email or other contact data
Variants ==
    {[s EXCEPT !.renterBio = Text("rb")] : s \in BaseSubmissions}
    \cup {[s EXCEPT !.email = Text("new@example.com")] : s \in BaseSubmissions}
    \cup {Submission(s.name, s.username, ContactB, s.newPassword, Undef, Undef,
                     Undef, Undef) : s \in BaseSubmissions}

WellShaped == CoreSubmissions \cup Variants

AllFields == {"name", "username", "email", "newPassword", "currentPassword",
              "renterBio", "hostBio", "phone", "address", "city", "state",
              "zip", "country"}

\* one field of a base submission missing, or a File instead of text
Misshaped ==
    {[s EXCEPT ![f] = d] : s \in BaseSubmissions, f \in AllFields, d \in {Undef, FileV}}

Submissions == WellShaped \cup Misshaped

\* the requests: every submission by the caller, the base ones also without
\* a session and with a session whose User is gone
Requests ==
    {[session |-> "u1", req |-> s] : s \in Submissions}
    \cup {[session |-> x, req |-> s] : x \in {"none", "gone"}, s \in BaseSubmissions}

BlankRequest == Submission(Undef, Undef,
                           [phone |-> Undef, address |-> Undef, city |-> Undef,
                            state |-> Undef, zip |-> Undef, country |-> Undef],
                           Undef, Undef, Undef, Undef, Undef)

Handled(kind, session, req, run, data, pre) ==
    [kind |-> kind, session |-> session, req |-> req, resp |-> run.resp,
     data |-> data, pre |-> pre, loggedOut |-> run.loggedOut,
     verifierCalls |-> run.verifierCalls]

-----------------------------------------------------------------------------
(* Behaviours of the settings/profile route.                                *)

IdlePage == [mounted |-> FALSE]
IdleRoute == [kind |-> "none"]

InitProfile ==
    /\ user \in InitialUsers
    /\ last = [kind |-> "none", session |-> "none", req |-> BlankRequest,
               resp |-> Response("none", 0, NoErrors, "", ""),
               data |-> NoData, pre |-> user, loggedOut |-> FALSE, verifierCalls |-> 0]
    /\ page = IdlePage
    /\ route = IdleRoute

ProfileAction ==
    \E r \in Requests :
        LET run == ActionRun(user, r.session, r.req) IN
        /\ last' = Handled("action", r.session, r.req, run, run.data, user)
        /\ user' = run.user
        /\ UNCHANGED <<page, route>>

ProfileLoader ==
    \E session \in Sessions :
        /\ last' = Handled("loader", session, BlankRequest,
                           LoaderRun(user, session), NoData, user)
        /\ UNCHANGED <<user, page, route>>

CreateHost ==
    /\ user' = [user EXCEPT !.host = Provision(@)]
    /\ last' = Handled("createHost", "u1", BlankRequest,
                       [resp |-> Response("success", 200, NoErrors, "", ""),
                        loggedOut |-> FALSE, verifierCalls |-> 0], NoData, user)
    /\ UNCHANGED <<page, route>>

CreateRenter ==
    /\ user' = [user EXCEPT !.renter = Provision(@)]
    /\ last' = Handled("createRenter", "u1", BlankRequest,
                       [resp |-> Response("success", 200, NoErrors, "", ""),
                        loggedOut |-> FALSE, verifierCalls |-> 0], NoData, user)
    /\ UNCHANGED <<page, route>>

NextProfile == ProfileAction \/ ProfileLoader \/ CreateHost \/ CreateRenter

Spec == InitProfile /\ [][NextProfile]_vars

-----------------------------------------------------------------------------
(* Properties of the profile-update action, checked under Spec.             *)

IsAction == last.kind = "action"

\* the eight fields the action requires to be text
AssertedFields == {"name", "username", "phone", "address", "city", "state",
                   "zip", "country"}
Shaped(req) == \A f \in AssertedFields : req[f].t = "string"

\* the call got as far as the field checks
ReachedValidation == IsAction /\ last.session # "none" /\ Shaped(last.req)

ErrorsExist(e) ==
    \/ e.formErrors # <<>>
    \/ \E f \in DOMAIN e.fieldErrors : e.fieldErrors[f] # <<>>

NonEmptyText(x) == x.t = "string" /\ x.v # ""

\* C1: prisma.user.update is called if and only if the validation result has
\* no form error and no non-empty field error; with any error the response
\* is status "error" carrying the errors, nothing stored changes, and
\* handling the same submission again gives the same response and state.
C1_PersistIffNoErrors ==
    IsAction =>
        /\ last.data.called <=>
              (ReachedValidation /\ ~ErrorsExist(Validate(last.req)))
        /\ (ReachedValidation /\ ErrorsExist(Validate(last.req))) =>
              /\ last.resp.outcome = "error"
              /\ last.resp.errors = Validate(last.req)
              /\ user = last.pre
              /\ ActionRun(user, last.session, last.req).resp = last.resp
              /\ ActionRun(user, last.session, last.req).user = user

\* a rejected submission handled after an earlier one was stored
C1_Witness ==
    /\ IsAction /\ last.resp.outcome = "error"
    /\ user.username = "alice2" /\ user.contactInfo.present

\* C2 as stated: every submission whose username is shorter than 3
\* characters gets a status "error" response with a username field error
\* (read for the caller whose session names a stored User).
C2_Original ==
    (/\ IsAction /\ last.session = "u1"
     /\ last.req.username.t = "string" /\ Len(last.req.username.v) < 3) =>
        /\ last.resp.outcome = "error"
        /\ "username" \in DOMAIN last.resp.errors.fieldErrors
        /\ ~last.data.called

\* C2 amended: for a caller with a session and a submission whose eight
\* required fields are text, a username shorter than 3 characters gives a
\* status "error" response whose fieldErrors.username is
\* <<"Must be at least 3 characters">>, with no update; when the name is
\* not empty the username entry is the only one.
C2_ShortUsernameRejected ==
    (ReachedValidation /\ Len(last.req.username.v) < 3) =>
        /\ last.resp.outcome = "error"
        /\ "username" \in DOMAIN last.resp.errors.fieldErrors
        /\ last.resp.errors.fieldErrors["username"] = <<"Must be at least 3 characters">>
        /\ ~last.data.called
        /\ user = last.pre
        /\ (Len(last.req.name.v) >= 1 =>
                DOMAIN last.resp.errors.fieldErrors = {"username"})

\* the submission {name: "A", username: "al"} with text contact fields
C2_Witness ==
    /\ ReachedValidation
    /\ last.req.name = Text("A") /\ last.req.username = Text("al")
    /\ last.resp.outcome = "error"

\* C3: a non-empty newPassword with a currentPassword that does not verify
\* against the stored credential gives a currentPassword field error
\* ("invalid") and leaves the stored hash alone (stated for the caller whose
\* session names a stored User and whose name and username pass their checks).
C3_WrongCurrentPasswordRejected ==
    (/\ ReachedValidation /\ last.session = "u1"
     /\ Len(last.req.name.v) >= 1 /\ Len(last.req.username.v) >= 3
     /\ NonEmptyText(last.req.newPassword)
     /\ ~(/\ last.req.currentPassword.t = "string"
          /\ verifyPassword(last.pre.hash, last.req.currentPassword.v))) =>
        /\ "currentPassword" \in DOMAIN last.resp.errors.fieldErrors
        /\ user.hash = last.pre.hash

\* C4: with an empty or absent newPassword no currentPassword error is
\* produced whatever currentPassword holds, verifyPassword is not called and
\* the stored hash is unchanged.
C4_NoNewPasswordNoCheck ==
    (IsAction /\ (last.req.newPassword = Undef \/ last.req.newPassword = Text(""))) =>
        /\ "currentPassword" \notin DOMAIN last.resp.errors.fieldErrors
        /\ last.verifierCalls = 0
        /\ ~last.data.password.set
        /\ user.hash = last.pre.hash

\* an empty newPassword with a wrong currentPassword, stored
C4_Witness ==
    /\ IsAction /\ last.req.newPassword = Text("")
    /\ last.req.currentPassword = Text("wrong")
    /\ last.resp.outcome = "redirect" /\ user # last.pre

\* C5: a call that stored the update answers with a redirect to /users/{u},
\* u being the username it just wrote (the submitted one); a rejected call
\* carries no redirect.
C5_RedirectToWrittenUsername ==
    IsAction =>
        /\ user # last.pre => last.resp.outcome = "redirect"
        /\ last.resp.outcome = "redirect" =>
              /\ last.data.called
              /\ user.username = last.req.username.v
              /\ last.resp.target = "/users/" \o user.username
        /\ last.resp.outcome = "error" =>
              /\ last.resp.target = "" /\ last.resp.status = 400

\* the username changed from alice to alice2 by the call
C5_Witness ==
    /\ IsAction /\ last.resp.outcome = "redirect"
    /\ last.pre.username = "alice" /\ user.username = "alice2"
    /\ last.resp.target = "/users/alice2"

\* C6: when the session's user id matches no stored User, the action and
\* the loader end the session and redirect to "/", storing nothing (for
\* the action, stated for a submission that passes every field check).
C6_GoneUserLoggedOut ==
    (/\ last.session = "gone"
     /\ \/ last.kind = "loader"
        \/ /\ ReachedValidation
           /\ Len(last.req.name.v) >= 1 /\ Len(last.req.username.v) >= 3) =>
        /\ last.resp.outcome = "redirect" /\ last.resp.target = "/"
        /\ last.loggedOut
        /\ user = last.pre

C9_Original ==
    (IsAction /\ last.data.called) =>
        /\ last.data.host.set => last.pre.host.present
        /\ last.data.renter.set => last.pre.renter.present
        /\ (last.req.hostBio.t = "string" /\ ~last.pre.host.present) =>
              /\ ~user.host.present
              /\ user.name = last.req.name.v /\ user.username = last.req.username.v

\* C9 amended: the update data names the Host (Renter) bio exactly when
\* hostBio (renterBio) is submitted as text, whether or not the capability
\* exists.  The action never creates a capability and changes a bio only of
\* a capability that exists; for a user without the capability such an
\* update fails as a whole and nothing is stored.
C9_BioUpdateFollowsSubmission ==
    IsAction =>
        /\ last.data.called =>
              /\ last.data.host.set <=> last.req.hostBio.t = "string"
              /\ last.data.renter.set <=> last.req.renterBio.t = "string"
        /\ user.host.present = last.pre.host.present
        /\ user.renter.present = last.pre.renter.present
        /\ user.host # last.pre.host => last.req.hostBio = Text(user.host.bio)
        /\ user.renter # last.pre.renter => last.req.renterBio = Text(user.renter.bio)
        /\ (/\ last.data.called
            /\ \/ last.data.host.set /\ ~last.pre.host.present
               \/ last.data.renter.set /\ ~last.pre.renter.present) =>
              /\ last.resp.outcome = "fault"
              /\ user = last.pre

\* hostBio text submitted for a user who is no host, after the provisioner
\* made them a renter
C9_Witness ==
    /\ IsAction /\ last.data.called
    /\ last.req.hostBio = Text("hb") /\ ~last.pre.host.present
    /\ last.pre.renter.present
    /\ last.resp.outcome = "fault"

-----------------------------------------------------------------------------
(* The EditUserProfile component (profile.tsx): usePreviousValue and the    *)
(* focus effects of the Host and Renter bio fields.                         *)

MaxRenders == 4

Roles == {"host", "renter"}

\* the loader's data.user.host / data.user.renter, as the component sees
\* them: Boolean(data.user[role])
LoaderFlags(u) == [r \in Roles |-> IF r = "host" THEN u.host.present
                                   ELSE u.renter.present]

\* a variant that starts the ref empty instead of at the first value
InitialRef_Unset(value) == FALSE

\* useRef<Value>(value): the ref holds the value of the first render
InitialRef(value) == value

\* usePreviousValue(value) during a render: ref.current, which the effect of
\* the last render whose value changed has set
PreviousValue(mounted, ref, value) == IF mounted THEN ref ELSE InitialRef(value)

\* const isNewHost = !prevWasHost && Boolean(data.user.host)
IsNew(prev, value) == ~prev /\ value

\* useEffect(fn, deps): fn runs after the first render and after a render
\* whose deps differ from those of the render before
EffectRuns(mounted, oldDep, newDep) == ~mounted \/ oldDep # newDep

\* the body of the focus effect: the textarea ref is attached and isNew holds
Focuses(attached, isNew) == attached /\ isNew

InitPage ==
    /\ user \in InitialUsers
    /\ last = [kind |-> "none"]
    /\ route = IdleRoute
    /\ page = [mounted |-> FALSE,
               data |-> LoaderFlags(user),
               ref |-> [r \in Roles |-> FALSE],
               valueDep |-> [r \in Roles |-> FALSE],
               isNewDep |-> [r \in Roles |-> FALSE],
               attached |-> FALSE,
               focusCount |-> [r \in Roles |-> 0],
               history |-> <<>>]

\* one render of the component with the current loader data, its commit
\* (the textarea refs are attached) and the effects that follow
Render ==
    /\ Len(page.history) < MaxRenders
    /\ LET value == page.data
           prev == [r \in Roles |-> PreviousValue(page.mounted, page.ref[r], value[r])]
           isNew == [r \in Roles |-> IsNew(prev[r], value[r])]
           focus == [r \in Roles |->
                        /\ EffectRuns(page.mounted, page.isNewDep[r], isNew[r])
                        /\ Focuses(TRUE, isNew[r])]
       IN  page' = [page EXCEPT
                !.mounted = TRUE,
                !.attached = TRUE,
                !.ref = [r \in Roles |->
                            IF EffectRuns(page.mounted, page.valueDep[r], value[r])
                            THEN value[r] ELSE prev[r]],
                !.valueDep = value,
                !.isNewDep = isNew,
                !.focusCount = [r \in Roles |->
                                   IF focus[r] THEN @[r] + 1 ELSE @[r]],
                !.history = Append(@, [flag |-> value, prev |-> prev,
                                       focused |-> focus])]
    /\ UNCHANGED <<user, last, route>>

\* the loaders run again after a fetcher action and the page gets new data
Revalidate ==
    /\ page.data # LoaderFlags(user)
    /\ page' = [page EXCEPT !.data = LoaderFlags(user)]
    /\ UNCHANGED <<user, last, route>>

\* the create-host / create-renter fetcher forms of the page
BecomeHost ==
    /\ ~user.host.present
    /\ user' = [user EXCEPT !.host = Provision(@)]
    /\ UNCHANGED <<last, page, route>>

BecomeRenter ==
    /\ ~user.renter.present
    /\ user' = [user EXCEPT !.renter = Provision(@)]
    /\ UNCHANGED <<last, page, route>>

NextPage == Render \/ Revalidate \/ BecomeHost \/ BecomeRenter

SpecPage == InitPage /\ [][NextPage]_vars

\* C10: the Host (Renter) bio field is focused exactly on the renders whose
\* capability flag is true while the flag of the render before was false:
\* never on the first render, never while the flag stays true or is false;
\* so once per creation of the capability.
C10_FocusOnlyOnCreation ==
    \A r \in Roles :
        /\ \A i \in 1..Len(page.history) :
              page.history[i].focused[r] <=>
                  (/\ i > 1
                   /\ ~page.history[i - 1].flag[r]
                   /\ page.history[i].flag[r])
        /\ page.focusCount[r] =
              Cardinality({i \in 2..Len(page.history) :
                              ~page.history[i - 1].flag[r] /\ page.history[i].flag[r]})
        /\ page.focusCount[r] <= 1

\* the page was first rendered for a user who was a renter and no host, the
\* Host capability was then created, and two more renders followed
C10_Witness ==
    /\ Len(page.history) >= 3
    /\ page.history[1].flag["renter"] /\ ~page.history[1].flag["host"]
    /\ page.history[2].focused["host"]
    /\ page.history[3].flag["host"] /\ ~page.history[3].focused["host"]
    /\ page.focusCount["host"] = 1 /\ page.focusCount["renter"] = 0

-----------------------------------------------------------------------------
(* The users/$username route: loader and ErrorBoundary, in its two stages   *)
(* (exercise 05.error-handling 03, and the earlier stage of the route).     *)

Stages == {"error-abstraction", "earlier"}

\* params.username of the requests explored ("" when the param is missing)
RequestedUsernames == {"", "alice", "alice2", "kody", "ghost", "al"}

StoredUsernames(u) == {u.username} \cup OtherUsernames

NoError == [kind |-> "none", status |-> 0, body |-> ""]

\* the loader (the same in both stages): invariant(params.username), then
\* findUnique by username, then a 404 Response when there is none.  fault
\* stands for the database call throwing.
RouteLoader(stored, username, fault) ==
    IF username = ""
    THEN [kind |-> "error", status |-> 0, body |-> "Missing username"]
    ELSE IF fault
    THEN [kind |-> "error", status |-> 0, body |-> "database"]
    ELSE IF username \notin stored
    THEN [kind |-> "response", status |-> 404, body |-> "not found"]
    ELSE NoError

GenericMessage == "Oh no, something went wrong. Sorry about that."

NotFoundMessage(username) == "No user with the username \"" \o username \o "\" exists"

\* isRouteErrorResponse(error) && error.status === 404
Is404(error) == error.kind = "response" /\ error.status = 404

\* ErrorBoundary of users_+/$username.tsx
ErrorBoundary(error, params) ==
    IF Is404(error) THEN NotFoundMessage(params) ELSE GenericMessage

\* ErrorBoundary of the earlier stage: one message for every error
ErrorBoundaryEarlier(error, params) == GenericMessage

InitRoute ==
    /\ user \in {[u EXCEPT !.username = n] : u \in InitialUsers,
                                            n \in {"alice", "alice2"}}
    /\ last = [kind |-> "none"]
    /\ page = IdlePage
    /\ route = [kind |-> "none", stage |-> "earlier", username |-> "",
                error |-> NoError, rendered |-> ""]

\* a request for /users/:username; the loader runs
RouteRequest ==
    \E stage \in Stages, username \in RequestedUsernames, fault \in BOOLEAN :
        /\ route.kind # "loaded"
        /\ route' = [kind |-> "loaded", stage |-> stage, username |-> username,
                     error |-> RouteLoader(StoredUsernames(user), username, fault),
                     rendered |-> ""]
        /\ UNCHANGED <<user, last, page>>

\* the loader threw: the route's ErrorBoundary renders
RouteBoundary ==
    /\ route.kind = "loaded" /\ route.error # NoError
    /\ route' = [route EXCEPT
            !.kind = "boundary",
            !.rendered = IF route.stage = "earlier"
                         THEN ErrorBoundaryEarlier(route.error, route.username)
                         ELSE ErrorBoundary(route.error, route.username)]
    /\ UNCHANGED <<user, last, page>>

\* the loader returned: UserRoute renders
RoutePage ==
    /\ route.kind = "loaded" /\ route.error = NoError
    /\ route' = [route EXCEPT !.kind = "page", !.rendered = "UserRoute"]
    /\ UNCHANGED <<user, last, page>>

NextRoute == RouteRequest \/ RouteBoundary \/ RoutePage

SpecRoute == InitRoute /\ [][NextRoute]_vars

\* C7: a requested username that matches no stored User makes the loader
\* throw a 404 Response and the boundary render
\* 'No user with the username "<username>" exists' with the requested
\* username; the generic message is rendered only for errors that are not
\* a 404 Response.
C7_NotFoundNamesUsername ==
    /\ (/\ route.kind \in {"loaded", "boundary"}
        /\ route.username # "" /\ route.username \notin StoredUsernames(user)
        /\ route.error.body # "database") =>
           route.error.kind = "response" /\ route.error.status = 404
    /\ route.kind = "boundary" =>
          /\ (route.error.kind = "response" /\ route.error.status = 404) =>
                route.rendered = "No user with the username \"" \o route.username
                                     \o "\" exists"
          /\ route.rendered = "Oh no, something went wrong. Sorry about that." =>
                ~(route.error.kind = "response" /\ route.error.status = 404)

-----------------------------------------------------------------------------
(* The email field of the profile-update action, checked under Spec.        *)

\* C11: email is read-only in the profile update: whether or not an email
\* is submitted, and whatever it is, the stored email after the call is the
\* stored email before it, and a submitted email is no target of the
\* update: response and stored User are those of the same submission
\* without the email.
C11_EmailReadOnly ==
    IsAction =>
        /\ user.email = last.pre.email
        /\ user = ActionRun(last.pre, last.session,
                            [last.req EXCEPT !.email = Undef]).user
        /\ last.resp = ActionRun(last.pre, last.session,
                                 [last.req EXCEPT !.email = Undef]).resp
        /\ "email" \notin DOMAIN last.resp.errors.fieldErrors

\* a submission carrying another email was stored, the email was not
C11_Witness ==
    /\ IsAction /\ last.req.email = Text("new@example.com")
    /\ last.resp.outcome = "redirect" /\ user # last.pre
    /\ user.username = "alice2" /\ user.email = "al@example.com"

====
